---- MODULE Spec2Model ----
(***************************************************************************)
(* The resilient knowledge store of yitam-admin: DatabaseService           *)
(* (server/src/core/database-service.ts) in front of a Qdrant collection,  *)
(* with the in-memory map it falls back to and the FallbackService that    *)
(* routes every call to one of the two.                                    *)
(*                                                                         *)
(* Strings that the code takes apart (chunk ids, id patterns) are          *)
(* sequences of tokens, so that startsWith is a real prefix test.  The     *)
(* token "youtube_" is the literal the code puts in front of a video id.   *)
(* A similarity score dot / sqrt(den) is kept exactly as the pair          *)
(* <<dot, den>>; scores are compared by cross-multiplying their squares.   *)
(***************************************************************************)
EXTENDS Integers, Sequences, FiniteSets, TLC

VARIABLES
    degraded,           \* FallbackService: the degraded flag
    warned,             \* FallbackService: operation names already warned about
    inMemoryDocuments,  \* the Local Store: a JS Map, as the sequence of its values in key order
    points,             \* the Qdrant collection's points, in scroll order
    collectionExists,   \* whether COLLECTION_NAME exists on the backend
    indices,            \* payload indices of the collection
    last                \* the last call: what was asked, what was done, what came back

vars == <<degraded, warned, inMemoryDocuments, points, collectionExists, indices, last>>

----------------------------------------------------------------------------
(* Configuration and bounds *)

\* GEMINI_VECTOR_SIZE, the configured vector dimension (768 unless configured)
VECTOR_SIZE == 2

\* const limit = 100: the page size of every paginated scroll, scaled to the model's collection
limit == 2

\* const batchSize = 100: the points deleted per request, scaled likewise
batchSize == 2

\* limit: 100 of the last-resort existence scroll, scaled likewise
lastResortLimit == 2

\* limit: 1 of the filtered existence scroll
existsLimit == 1

\* most points the collection holds
MaxPoints == 3

\* most failures one pattern holds, short of the backend being unreachable
MaxFailures == 2

\* most records of a Local Store that is searched
MaxStored == 3

\* most records of a store that is listed
MaxListed == 4

\* most points of a collection that is scanned page by page
MaxScanned == 5

\* the callers whose calls run concurrently
NumCallers == 2

\* the client calls one operation can make: a count and a delete, then at most a page
\* and a delete batch per point
MaxCalls == 2 + 2 * MaxPoints

----------------------------------------------------------------------------
(* Sequences *)

Range(s) == {s[i] : i \in 1..Len(s)}

Min(a, b) == IF a < b THEN a ELSE b

\* String.prototype.startsWith
startsWith(s, p) == Len(p) <= Len(s) /\ SubSeq(s, 1, Len(p)) = p

\* Array.prototype.slice(from - 1, from - 1 + n)
Slice(s, from, n) == SubSeq(s, from, Min(Len(s), from + n - 1))

\* the elements of s in order, each once: what a JS Set of them iterates over
RECURSIVE Distinct(_)
Distinct(s) ==
    IF s = <<>> THEN <<>>
    ELSE LET front == Distinct(SubSeq(s, 1, Len(s) - 1))
             x == s[Len(s)]
         IN IF x \in Range(front) THEN front ELSE Append(front, x)

----------------------------------------------------------------------------
(* Chunk records *)

YT == "youtube_"

\* a DocumentChunk; domains is left out when the chunker gave none
Chunk(id, name, content, embedding) ==
    [id |-> id, documentName |-> name, content |-> content, embedding |-> embedding]

WithDomains(c, d) ==
    [id |-> c.id, documentName |-> c.documentName, content |-> c.content,
     embedding |-> c.embedding, domains |-> d]

\* the chunks callers write: chunk 0 of video a, the same chunk written again with
\* other content and an embedding of another size, and chunk 0 of video ab
Chunks ==
    { WithDomains(Chunk(<<YT, "a", "_0">>, "A", "v1", <<1, 0>>), <<"med">>),
      Chunk(<<YT, "a", "_0">>, "A", "v2", <<1>>),
      Chunk(<<YT, "a", "b", "_0">>, "B", "v1", <<1, 1>>) }

\* the record lists addDocumentChunks is called with
Batches ==
    {<<>>} \cup {<<c>> : c \in Chunks}
    \cup {<<c, d>> : c, d \in {x \in Chunks : x.id = <<YT, "a", "_0">>}}

\* the video ids the prefix operations are called with
VideoIds == {<<"a">>, <<"a", "b">>}

\* the id lists deleteChunksByIds is called with
IdLists ==
    {<<>>, <<<<YT, "a", "_0">>>>, <<<<YT, "a", "_0">>, <<YT, "a", "b", "_0">>>>,
     <<<<YT, "a", "_0">>, <<YT, "a", "_0">>>>}

QueryVectors == {<<1, 0>>, <<0, 0>>}

Limits == {1, 2}

DocumentNames == {"A", "B"}

\* the document names of a listed store's records: two names and the empty one
ListNames == {"A", "B", ""}

\* the record lists of up to MaxListed records, one id each, of every choice of names
ListRecords ==
    UNION {{[i \in 1..n |-> Chunk(<<YT, "l", ToString(i)>>, name[i], "v1", <<1, 0>>)] :
                name \in [1..n -> ListNames]} : n \in 0..MaxListed}

\* the embeddings of a searched store and of the queries put to it: a unit vector, a
\* longer parallel one, a diagonal one, the zero vector, the opposite one, one of another size
SearchVectors == {<<1, 0>>, <<2, 0>>, <<1, 1>>, <<0, 0>>, <<-1, 0>>, <<1>>}

\* the limits a searched store is asked for: none, fewer than it holds, all, more
SearchLimits == 0..(MaxStored + 1)

\* the Local Stores of up to MaxStored records, one id each, of every choice of embeddings
SearchStores ==
    UNION {{[i \in 1..n |-> Chunk(<<YT, "s", ToString(i)>>, "S", "v1", e[i])] :
                e \in [1..n -> SearchVectors]} : n \in 0..MaxStored}

----------------------------------------------------------------------------
(* The Local Store: the functions handed to withFallback as fallbackFn.    *)
(* Each yields an outcome: the value returned, the stores afterwards, and  *)
(* the client calls made (none here).                                      *)

\* what an operation returns, by its JavaScript type
Void == [void |-> TRUE]

Boolean(b) == [boolean |-> b]

Number(n) == [number |-> n]

Names(s) == [names |-> s]

Results(s) == [results |-> s]

\* a thrown error
Error == [error |-> TRUE]

Outcome(raised, result, mem, pts, calls, failed) ==
    [raised |-> raised, result |-> result, mem |-> mem, points |-> pts,
     calls |-> calls, failed |-> failed]

Local(result, mem) == Outcome(FALSE, result, mem, points, 0, 0)

\* Map.prototype.set: a new key goes last, a stored key keeps its place and gets the value
MapSet(m, doc) ==
    IF \E i \in 1..Len(m) : m[i].id = doc.id
    THEN [i \in 1..Len(m) |-> IF m[i].id = doc.id THEN doc ELSE m[i]]
    ELSE Append(m, doc)

RECURSIVE MapSetAll(_, _)
MapSetAll(m, docs) ==
    IF docs = <<>> THEN m ELSE MapSetAll(MapSet(m, Head(docs)), Tail(docs))

\* Map.prototype.delete
MapDelete(m, id) == SelectSeq(m, LAMBDA d : d.id # id)

MapHas(m, id) == \E i \in 1..Len(m) : m[i].id = id

\* the fallback function of addDocumentChunks that stores the first record only
addDocumentChunksFallbackFirstOnly(documents) ==
    Local(Void, IF documents = <<>> THEN inMemoryDocuments
                ELSE MapSet(inMemoryDocuments, Head(documents)))

addDocumentChunksFallback(documents) ==
    Local(Void, MapSetAll(inMemoryDocuments, documents))

\* sum of a[i] * b[i]
RECURSIVE Dot(_, _)
Dot(a, b) == IF a = <<>> THEN 0 ELSE Head(a) * Head(b) + Dot(Tail(a), Tail(b))

\* the score dot / sqrt(den), den > 0
Score(dot, den) == <<dot, den>>

Zero == Score(0, 1)

\* cosineSimilarity that returns the dot product, not divided by the magnitudes
cosineSimilarityDotOnly(a, b) ==
    IF Len(a) # Len(b) THEN Zero
    ELSE IF Dot(a, a) = 0 \/ Dot(b, b) = 0 THEN Zero
    ELSE Score(Dot(a, b), 1)

\* cosineSimilarity without `if (aMagnitude === 0 || bMagnitude === 0) return 0`: 0 / 0
cosineSimilarityNoZeroGuard(a, b) ==
    IF Len(a) # Len(b) THEN Zero
    ELSE Score(Dot(a, b), Dot(a, a) * Dot(b, b))

cosineSimilarity(a, b) ==
    IF Len(a) # Len(b) THEN Zero
    ELSE IF Dot(a, a) = 0 \/ Dot(b, b) = 0 THEN Zero
    ELSE Score(Dot(a, b), Dot(a, a) * Dot(b, b))

\* x / sqrt(d) as sign(x) * x^2 / d, which orders scores as the scores themselves
Signed(x) == IF x < 0 THEN -(x * x) ELSE x * x

\* s.score > t.score
ScoreGreater(s, t) == Signed(s[1]) * t[2] > Signed(t[1]) * s[2]

\* a descending sort that puts a result before the results of equal score that came
\* before it
RECURSIVE InsertByScoreBeforeEqual(_, _)
InsertByScoreBeforeEqual(sorted, r) ==
    IF sorted = <<>> THEN <<r>>
    ELSE IF ~ScoreGreater(Head(sorted).score, r.score)
         THEN <<r>> \o sorted
         ELSE <<Head(sorted)>> \o InsertByScoreBeforeEqual(Tail(sorted), r)

\* Array.prototype.sort((a, b) => b.score - a.score): stable, descending
RECURSIVE InsertByScore(_, _)
InsertByScore(sorted, r) ==
    IF sorted = <<>> THEN <<r>>
    ELSE IF ScoreGreater(r.score, Head(sorted).score)
         THEN <<r>> \o sorted
         ELSE <<Head(sorted)>> \o InsertByScore(Tail(sorted), r)

RECURSIVE SortByScore(_)
SortByScore(s) ==
    IF s = <<>> THEN <<>>
    ELSE InsertByScore(SortByScore(SubSeq(s, 1, Len(s) - 1)), s[Len(s)])

\* the SearchResult of a stored chunk on the fallback path: domains: doc.domains
LocalResult(doc, score) ==
    LET base == [id |-> doc.id, documentName |-> doc.documentName,
                 content |-> doc.content, score |-> score]
    IN IF "domains" \in DOMAIN doc
       THEN [id |-> doc.id, documentName |-> doc.documentName,
             content |-> doc.content, score |-> score, domains |-> doc.domains]
       ELSE base

\* searchByVectorFallback without its .sort(...)
searchByVectorFallbackUnsorted(queryVector, k) ==
    Local(Results(Slice([i \in 1..Len(inMemoryDocuments) |->
                    LocalResult(inMemoryDocuments[i],
                                cosineSimilarity(queryVector, inMemoryDocuments[i].embedding))],
                1, k)),
          inMemoryDocuments)

searchByVectorFallback(queryVector, k) ==
    Local(Results(Slice(SortByScore([i \in 1..Len(inMemoryDocuments) |->
                    LocalResult(inMemoryDocuments[i],
                                cosineSimilarity(queryVector, inMemoryDocuments[i].embedding))]),
                1, k)),
          inMemoryDocuments)

idPattern(videoId) == <<YT>> \o videoId

doesTranscriptExistFallback(videoId) ==
    Local(Boolean(\E i \in 1..Len(inMemoryDocuments) :
                      startsWith(inMemoryDocuments[i].id, idPattern(videoId))),
          inMemoryDocuments)

\* a delete by prefix that stops at the first record it removed
deleteYoutubeTranscriptChunksFallbackFirstOnly(videoId) ==
    LET hit == {i \in 1..Len(inMemoryDocuments) :
                    startsWith(inMemoryDocuments[i].id, idPattern(videoId))}
    IN IF hit = {} THEN Local(Number(0), inMemoryDocuments)
       ELSE LET first == CHOOSE i \in hit : \A j \in hit : i <= j
            IN Local(Number(1),
                     SubSeq(inMemoryDocuments, 1, first - 1)
                         \o SubSeq(inMemoryDocuments, first + 1, Len(inMemoryDocuments)))

deleteYoutubeTranscriptChunksFallback(videoId) ==
    LET kept == SelectSeq(inMemoryDocuments,
                          LAMBDA d : ~startsWith(d.id, idPattern(videoId)))
    IN Local(Number(Len(inMemoryDocuments) - Len(kept)), kept)

countYoutubeTranscriptChunksFallback(videoId) ==
    Local(Number(Len(SelectSeq(inMemoryDocuments,
                               LAMBDA d : startsWith(d.id, idPattern(videoId))))),
          inMemoryDocuments)

getUniqueDocumentNamesFallback ==
    Local(Names(Distinct(SelectSeq([i \in 1..Len(inMemoryDocuments) |->
                                        inMemoryDocuments[i].documentName],
                                   LAMBDA n : n # ""))),
          inMemoryDocuments)

getChunksByDocumentNameFallback(documentName) ==
    LET hits == SelectSeq(inMemoryDocuments, LAMBDA d : d.documentName = documentName)
    IN Local(Results([i \in 1..Len(hits) |-> LocalResult(hits[i], Score(1, 1))]),
             inMemoryDocuments)

\* for (const id of chunkIds) if (has(id)) { delete(id); deletedCount++ }
RECURSIVE DeleteEach(_, _, _)
DeleteEach(m, chunkIds, deletedCount) ==
    IF chunkIds = <<>> THEN Local(Number(deletedCount), m)
    ELSE IF MapHas(m, Head(chunkIds))
         THEN DeleteEach(MapDelete(m, Head(chunkIds)), Tail(chunkIds), deletedCount + 1)
         ELSE DeleteEach(m, Tail(chunkIds), deletedCount)

\* a delete by ids that counts every entry of the list that names a stored id
deleteChunksByIdsFallbackCountsEntries(chunkIds) ==
    Local(Number(Len(SelectSeq(chunkIds, LAMBDA id : MapHas(inMemoryDocuments, id)))),
          SelectSeq(inMemoryDocuments, LAMBDA d : d.id \notin Range(chunkIds)))

deleteChunksByIdsFallback(chunkIds) == DeleteEach(inMemoryDocuments, chunkIds, 0)

----------------------------------------------------------------------------
(* The Qdrant client, as the code uses it.  A failure pattern names the    *)
(* client calls of one operation, by their order, that raise; every call   *)
(* but getCollections and createCollection raises too while the            *)
(* collection does not exist.                                              *)

Plans(n) ==
    {S \in SUBSET (1..n) : Cardinality(S) <= MaxFailures} \cup {1..n}

\* the patterns that make a difference to a call: a degraded store calls no client
PlansNow(n) == IF degraded THEN {{}} ELSE Plans(n)

Fails(plan, call) == call \in plan \/ ~collectionExists

\* of the first `calls` client calls, those that raised
Failed(plan, calls) ==
    IF collectionExists THEN Cardinality(plan \cap (1..calls)) ELSE calls

Ok(result, pts, calls, plan) ==
    Outcome(FALSE, result, inMemoryDocuments, pts, calls, Failed(plan, calls))

Err(pts, calls, plan) ==
    Outcome(TRUE, Error, inMemoryDocuments, pts, calls, Failed(plan, calls))

\* the payload of a point: every field of the chunk but its embedding
Payload(doc) ==
    IF "domains" \in DOMAIN doc
    THEN [id |-> doc.id, documentName |-> doc.documentName, content |-> doc.content,
          domains |-> doc.domains]
    ELSE [id |-> doc.id, documentName |-> doc.documentName, content |-> doc.content]

\* documents.map(doc => ({id: uuidv4(), vector: doc.embedding, payload: {...}})).
\* A point's id is a fresh uuid, equal to no other point's: the collection is kept
\* without the ids, and an operation that reads them sees each point's position
PointsOf(documents) ==
    [i \in 1..Len(documents) |->
        [vector |-> documents[i].embedding, payload |-> Payload(documents[i])]]

\* the points as one operation reads them, each with its id
Identified(pts) ==
    [i \in 1..Len(pts) |-> [id |-> i, vector |-> pts[i].vector, payload |-> pts[i].payload]]

\* the points as the collection keeps them
Stored(held) ==
    [i \in 1..Len(held) |-> [vector |-> held[i].vector, payload |-> held[i].payload]]

\* upsert of points with fresh ids: each is a new point
Upsert(pts, new) == pts \o new

\* the collection accepts only vectors of the size it was created with
VectorsFit(new) == \A i \in 1..Len(new) : Len(new[i].vector) = VECTOR_SIZE

\* filter {key: 'id', match: {text: idPattern, exact: false}}: ids that start with the pattern
MatchText(pts, pattern) == SelectSeq(pts, LAMBDA p : startsWith(p.payload.id, pattern))

\* filter {should: chunkIds.map(id => ({key: 'id', match: {value: id}}))}
MatchAny(pts, chunkIds) == SelectSeq(pts, LAMBDA p : p.payload.id \in Range(chunkIds))

\* filter {key: 'documentName', match: {value: documentName}}
MatchName(pts, documentName) == SelectSeq(pts, LAMBDA p : p.payload.documentName = documentName)

\* delete by filter: the collection without the points that match
Without(pts, gone) == SelectSeq(pts, LAMBDA p : p \notin Range(gone))

\* delete by point ids
WithoutIds(held, ids) == SelectSeq(held, LAMBDA p : p.id \notin Range(ids))

\* one scroll request: a page from the cursor on, and the cursor of the next page
\* (0: none, which is also the cursor of the first request)
Page(s, offset, n) ==
    LET from == IF offset = 0 THEN 1 ELSE offset
    IN [points |-> Slice(s, from, n),
        next_page_offset |-> IF from + n <= Len(s) THEN from + n ELSE 0]

\* ScrollAll without the loop: the first request's page only
ScrollFirstPage(s, nextPageOffset, call, plan, acc) ==
    IF Fails(plan, call) THEN [raised |-> TRUE, points |-> acc, calls |-> call]
    ELSE [raised |-> FALSE, points |-> acc \o Page(s, nextPageOffset, limit).points,
          calls |-> call]

\* do { response = scroll(offset: nextPageOffset); ...; nextPageOffset = response.next_page_offset }
\* while (nextPageOffset): the points of all pages, `call` being the order of the next request
RECURSIVE ScrollAll(_, _, _, _, _)
ScrollAll(s, nextPageOffset, call, plan, acc) ==
    IF Fails(plan, call) THEN [raised |-> TRUE, points |-> acc, calls |-> call]
    ELSE LET response == Page(s, nextPageOffset, limit)
         IN IF response.next_page_offset # 0
            THEN ScrollAll(s, response.next_page_offset, call + 1, plan,
                           acc \o response.points)
            ELSE [raised |-> FALSE, points |-> acc \o response.points, calls |-> call]

\* search: the k points nearest to the vector by cosine similarity, nearest first
Search(pts, vector, k) ==
    Slice(SortByScore([i \in 1..Len(pts) |->
              [payload |-> pts[i].payload,
               score |-> cosineSimilarity(vector, pts[i].vector)]]), 1, k)

----------------------------------------------------------------------------
(* The primary path: the functions handed to withFallback as primaryFn *)

\* addDocumentChunksPrimary without its `if (documents.length === 0) return`
addDocumentChunksPrimaryNoGuard(documents, plan) ==
    LET new == PointsOf(documents)
    IN IF Fails(plan, 1) \/ ~VectorsFit(new)
       THEN Err(points, 1, plan)
       ELSE Ok(Void, Upsert(points, new), 1, plan)

\* addDocumentChunks on the primary path that keeps the Local Store in step with the
\* collection
addDocumentChunksPrimaryWriteThrough(documents, plan) ==
    IF Len(documents) = 0 THEN Ok(Void, points, 0, plan)
    ELSE LET new == PointsOf(documents)
         IN IF Fails(plan, 1) \/ ~VectorsFit(new)
            THEN Err(points, 1, plan)
            ELSE Outcome(FALSE, Void, MapSetAll(inMemoryDocuments, documents),
                         Upsert(points, new), 1, Failed(plan, 1))

addDocumentChunksPrimary(documents, plan) ==
    IF Len(documents) = 0 THEN Ok(Void, points, 0, plan)
    ELSE LET new == PointsOf(documents)
         IN IF Fails(plan, 1) \/ ~VectorsFit(new)
            THEN Err(points, 1, plan)
            ELSE Ok(Void, Upsert(points, new), 1, plan)

\* the SearchResult of a payload: domains: payload.domains || ['default']
PrimaryResult(payload, score) ==
    [id |-> payload.id, documentName |-> payload.documentName,
     content |-> payload.content, score |-> score,
     domains |-> IF "domains" \in DOMAIN payload THEN payload.domains ELSE <<"default">>]

searchByVectorPrimary(queryVector, k, plan) ==
    IF Fails(plan, 1) \/ Len(queryVector) # VECTOR_SIZE
    THEN Err(points, 1, plan)
    ELSE LET results == Search(points, queryVector, k)
         IN Ok(Results([i \in 1..Len(results) |->
                            PrimaryResult(results[i].payload, results[i].score)]),
               points, 1, plan)

doesTranscriptExistPrimary(videoId, plan) ==
    LET matching == MatchText(points, idPattern(videoId))
    IN IF ~Fails(plan, 1)
       THEN Ok(Boolean(Len(matching) > 0), points, 1, plan)
       ELSE IF ~Fails(plan, 2)
       THEN Ok(Boolean(Len(Page(matching, 0, existsLimit).points) > 0), points, 2, plan)
       ELSE IF ~Fails(plan, 3)
       THEN Ok(Boolean(\E p \in Range(Page(points, 0, lastResortLimit).points) :
                           startsWith(p.payload.id, idPattern(videoId))),
               points, 3, plan)
       ELSE Ok(Boolean(FALSE), points, 3, plan)

\* for (i = 0; i < chunksToDelete.length; i += batchSize) delete(points: batch)
RECURSIVE DeleteBatches(_, _, _, _, _)
DeleteBatches(held, chunksToDelete, call, plan, deletedCount) ==
    IF chunksToDelete = <<>> THEN Ok(Number(deletedCount), Stored(held), call - 1, plan)
    ELSE IF Fails(plan, call) THEN Err(Stored(held), call, plan)
    ELSE LET batch == Slice(chunksToDelete, 1, batchSize)
         IN DeleteBatches(WithoutIds(held, batch),
                          SubSeq(chunksToDelete, Len(batch) + 1, Len(chunksToDelete)),
                          call + 1, plan, deletedCount + Len(batch))

\* DeleteByScroll reading one page only, as the last resort of doesTranscriptExist does
DeleteByScrollFirstPage(videoId, call, plan) ==
    LET page == Page(Identified(points), 0, limit).points
        matching == SelectSeq(page, LAMBDA p : startsWith(p.payload.id, idPattern(videoId)))
        chunksToDelete == [i \in 1..Len(matching) |-> matching[i].id]
    IN IF Fails(plan, call) THEN Err(points, call, plan)
       ELSE IF Len(chunksToDelete) = 0 THEN Ok(Number(0), points, call, plan)
       ELSE DeleteBatches(Identified(points), chunksToDelete, call + 1, plan, 0)

\* the catch block of deleteYoutubeTranscriptChunks: scroll everything, test the ids
\* client-side, delete the matching points in batches; `call` is its first request
DeleteByScroll(videoId, call, plan) ==
    LET all == ScrollAll(Identified(points), 0, call, plan, <<>>)
        matching == SelectSeq(all.points,
                              LAMBDA p : startsWith(p.payload.id, idPattern(videoId)))
        chunksToDelete == [i \in 1..Len(matching) |-> matching[i].id]
    IN IF all.raised THEN Err(points, all.calls, plan)
       ELSE IF Len(chunksToDelete) = 0 THEN Ok(Number(0), points, all.calls, plan)
       ELSE DeleteBatches(Identified(points), chunksToDelete, all.calls + 1, plan, 0)

deleteYoutubeTranscriptChunksPrimary(videoId, plan) ==
    LET matching == MatchText(points, idPattern(videoId))
        count == Len(matching)
    IN IF Fails(plan, 1) THEN DeleteByScroll(videoId, 2, plan)
       ELSE IF count = 0 THEN Ok(Number(0), points, 1, plan)
       ELSE IF Fails(plan, 2) THEN DeleteByScroll(videoId, 3, plan)
       ELSE Ok(Number(count), Without(points, matching), 2, plan)

countYoutubeTranscriptChunksPrimary(videoId, plan) ==
    IF ~Fails(plan, 1)
    THEN Ok(Number(Len(MatchText(points, idPattern(videoId)))), points, 1, plan)
    ELSE LET all == ScrollAll(points, 0, 2, plan, <<>>)
         IN IF all.raised THEN Err(points, all.calls, plan)
            ELSE Ok(Number(Len(SelectSeq(all.points,
                           LAMBDA p : startsWith(p.payload.id, idPattern(videoId))))),
                    points, all.calls, plan)

getUniqueDocumentNamesPrimary(plan) ==
    LET all == ScrollAll(points, 0, 1, plan, <<>>)
    IN IF all.raised THEN Ok(Names(<<>>), points, all.calls, plan)
       ELSE Ok(Names(Distinct(SelectSeq([i \in 1..Len(all.points) |->
                                             all.points[i].payload.documentName],
                                        LAMBDA n : n # ""))),
               points, all.calls, plan)

getChunksByDocumentNamePrimary(documentName, plan) ==
    LET all == ScrollAll(MatchName(points, documentName), 0, 1, plan, <<>>)
    IN IF all.raised THEN Ok(Results(<<>>), points, all.calls, plan)
       ELSE Ok(Results([i \in 1..Len(all.points) |->
                            PrimaryResult(all.points[i].payload, Score(1, 1))]),
               points, all.calls, plan)

\* deleteChunksByIdsPrimary returning the number of ids it was given
deleteChunksByIdsPrimaryCountsIds(chunkIds, plan) ==
    LET matching == MatchAny(points, chunkIds)
        pointCount == Len(matching)
    IN IF Len(chunkIds) = 0 THEN Ok(Number(0), points, 0, plan)
       ELSE IF Fails(plan, 1) THEN Ok(Number(0), points, 1, plan)
       ELSE IF pointCount = 0 THEN Ok(Number(0), points, 1, plan)
       ELSE IF Fails(plan, 2) THEN Ok(Number(0), points, 2, plan)
       ELSE Ok(Number(Len(chunkIds)), Without(points, matching), 2, plan)

deleteChunksByIdsPrimary(chunkIds, plan) ==
    LET matching == MatchAny(points, chunkIds)
        pointCount == Len(matching)
    IN IF Len(chunkIds) = 0 THEN Ok(Number(0), points, 0, plan)
       ELSE IF Fails(plan, 1) THEN Ok(Number(0), points, 1, plan)
       ELSE IF pointCount = 0 THEN Ok(Number(0), points, 1, plan)
       ELSE IF Fails(plan, 2) THEN Ok(Number(0), points, 2, plan)
       ELSE Ok(Number(pointCount), Without(points, matching), 2, plan)

----------------------------------------------------------------------------
(* FallbackService: the coordinator every operation is routed through *)

\* the argument of an operation that takes none
NoArg == [none |-> TRUE]

Call(op, arg, result, raised, calls, failed, primaryRaised, fallbackRuns, warning) ==
    [op |-> op, arg |-> arg, result |-> result, raised |-> raised, calls |-> calls,
     failed |-> failed, primaryRaised |-> primaryRaised,
     fallbackRuns |-> fallbackRuns, warning |-> warning]

isFallbackActive == degraded

\* set the degraded flag; warn the first time the operation fails
handleError(operationName) ==
    /\ degraded' = TRUE
    /\ warned' = warned \cup {operationName}

resetWarningFlag(operationName) ==
    /\ warned' = warned \ {operationName}
    /\ UNCHANGED degraded

\* withFallback that hands the primary's error on to the caller
withFallbackRethrow(operationName, arg, fallbackFn, primaryFn, forceFallback) ==
    /\ UNCHANGED <<collectionExists, indices>>
    /\ IF forceFallback \/ degraded
       THEN /\ UNCHANGED <<degraded, warned>>
            /\ inMemoryDocuments' = fallbackFn.mem
            /\ points' = fallbackFn.points
            /\ last' = Call(operationName, arg, fallbackFn.result, fallbackFn.raised,
                            fallbackFn.calls, fallbackFn.failed, FALSE, 1, FALSE)
       ELSE IF primaryFn.raised
       THEN /\ handleError(operationName)
            /\ UNCHANGED inMemoryDocuments
            /\ points' = primaryFn.points
            /\ last' = Call(operationName, arg, Error, TRUE, primaryFn.calls,
                            primaryFn.failed, TRUE, 0, operationName \notin warned)
       ELSE /\ UNCHANGED <<degraded, warned>>
            /\ inMemoryDocuments' = primaryFn.mem
            /\ points' = primaryFn.points
            /\ last' = Call(operationName, arg, primaryFn.result, FALSE,
                            primaryFn.calls, primaryFn.failed, FALSE, 0, FALSE)

\* withFallback that looks at forceFallback only, not at the flag itself
withFallbackForceOnly(operationName, arg, fallbackFn, primaryFn, forceFallback) ==
    /\ UNCHANGED <<collectionExists, indices>>
    /\ IF forceFallback
       THEN /\ UNCHANGED <<degraded, warned>>
            /\ inMemoryDocuments' = fallbackFn.mem
            /\ points' = fallbackFn.points
            /\ last' = Call(operationName, arg, fallbackFn.result, fallbackFn.raised,
                            fallbackFn.calls, fallbackFn.failed, FALSE, 1, FALSE)
       ELSE IF primaryFn.raised
       THEN /\ handleError(operationName)
            /\ inMemoryDocuments' = fallbackFn.mem
            /\ points' = primaryFn.points
            /\ last' = Call(operationName, arg, fallbackFn.result, fallbackFn.raised,
                            primaryFn.calls + fallbackFn.calls,
                            primaryFn.failed + fallbackFn.failed, TRUE, 1,
                            operationName \notin warned)
       ELSE /\ UNCHANGED <<degraded, warned>>
            /\ inMemoryDocuments' = primaryFn.mem
            /\ points' = primaryFn.points
            /\ last' = Call(operationName, arg, primaryFn.result, FALSE,
                            primaryFn.calls, primaryFn.failed, FALSE, 0, FALSE)

\* the fallback when forced or degraded; else the primary, and the fallback if it raises
withFallback(operationName, arg, fallbackFn, primaryFn, forceFallback) ==
    /\ UNCHANGED <<collectionExists, indices>>
    /\ IF forceFallback \/ degraded
       THEN /\ UNCHANGED <<degraded, warned>>
            /\ inMemoryDocuments' = fallbackFn.mem
            /\ points' = fallbackFn.points
            /\ last' = Call(operationName, arg, fallbackFn.result, fallbackFn.raised,
                            fallbackFn.calls, fallbackFn.failed, FALSE, 1, FALSE)
       ELSE IF primaryFn.raised
       THEN /\ handleError(operationName)
            /\ inMemoryDocuments' = fallbackFn.mem
            /\ points' = primaryFn.points
            /\ last' = Call(operationName, arg, fallbackFn.result, fallbackFn.raised,
                            primaryFn.calls + fallbackFn.calls,
                            primaryFn.failed + fallbackFn.failed, TRUE, 1,
                            operationName \notin warned)
       ELSE /\ UNCHANGED <<degraded, warned>>
            /\ inMemoryDocuments' = primaryFn.mem
            /\ points' = primaryFn.points
            /\ last' = Call(operationName, arg, primaryFn.result, FALSE,
                            primaryFn.calls, primaryFn.failed, FALSE, 0, FALSE)

----------------------------------------------------------------------------
(* DatabaseService: the operations *)

PayloadIndices == <<"documentName", "title", "domains">>

\* createPayloadIndex for each field in turn, from client call `call` on, until one raises
RECURSIVE CreateIndices(_, _, _, _)
CreateIndices(fields, call, plan, made) ==
    IF fields = <<>> THEN [raised |-> FALSE, indices |-> made, calls |-> call - 1]
    ELSE IF call \in plan THEN [raised |-> TRUE, indices |-> made, calls |-> call]
    ELSE CreateIndices(Tail(fields), call + 1, plan, made \cup {Head(fields)})

\* the try block of initialize without the test on the collection list: the collection
\* and its indices are created on every run
BootstrapAlwaysCreates(plan) ==
    IF 1 \in plan
    THEN [raised |-> TRUE, exists |-> collectionExists, indices |-> indices, calls |-> 1]
    ELSE IF 2 \in plan
    THEN [raised |-> TRUE, exists |-> collectionExists, indices |-> indices, calls |-> 2]
    ELSE LET made == CreateIndices(PayloadIndices, 3, plan, {})
         IN [raised |-> made.raised, exists |-> TRUE, indices |-> made.indices,
             calls |-> made.calls]

\* the try block of initialize: getCollections, then, for a collection that does not
\* exist, createCollection and the three createPayloadIndex calls
Bootstrap(plan) ==
    IF 1 \in plan
    THEN [raised |-> TRUE, exists |-> collectionExists, indices |-> indices, calls |-> 1]
    ELSE IF collectionExists
    THEN [raised |-> FALSE, exists |-> TRUE, indices |-> indices, calls |-> 1]
    ELSE IF 2 \in plan
    THEN [raised |-> TRUE, exists |-> FALSE, indices |-> indices, calls |-> 2]
    ELSE LET made == CreateIndices(PayloadIndices, 3, plan, {})
         IN [raised |-> made.raised, exists |-> TRUE, indices |-> made.indices,
             calls |-> made.calls]

\* initialize whose catch block throws the error on
initializeRethrow ==
    \E plan \in {{}} \cup {{call} : call \in 1..5} :
        LET done == Bootstrap(plan)
        IN /\ collectionExists' = done.exists
           /\ indices' = done.indices
           /\ UNCHANGED <<inMemoryDocuments, points>>
           /\ IF done.raised
              THEN UNCHANGED <<degraded, warned>>
              ELSE resetWarningFlag("initialize")
           /\ last' = Call("initialize", NoArg, IF done.raised THEN Error ELSE Void,
                           done.raised, done.calls,
                           Cardinality(plan \cap (1..done.calls)), done.raised, 0, FALSE)

\* initialize without resetWarningFlag('initialize') on its success path
initializeNoReset ==
    \E plan \in {{}} \cup {{call} : call \in 1..5} :
        LET done == Bootstrap(plan)
        IN /\ collectionExists' = done.exists
           /\ indices' = done.indices
           /\ UNCHANGED <<inMemoryDocuments, points>>
           /\ IF done.raised
              THEN handleError("initialize")
              ELSE UNCHANGED <<degraded, warned>>
           /\ last' = Call("initialize", NoArg, Void, FALSE, done.calls,
                           Cardinality(plan \cap (1..done.calls)), done.raised, 0,
                           done.raised /\ "initialize" \notin warned)

initialize ==
    \E plan \in {{}} \cup {{call} : call \in 1..5} :
        LET done == Bootstrap(plan)
        IN /\ collectionExists' = done.exists
           /\ indices' = done.indices
           /\ UNCHANGED <<inMemoryDocuments, points>>
           /\ IF done.raised
              THEN handleError("initialize")
              ELSE resetWarningFlag("initialize")
           /\ last' = Call("initialize", NoArg, Void, FALSE, done.calls,
                           Cardinality(plan \cap (1..done.calls)), done.raised, 0,
                           done.raised /\ "initialize" \notin warned)

addDocumentChunks ==
    \E documents \in Batches, plan \in PlansNow(1) :
        /\ degraded \/ Len(points) + Len(documents) <= MaxPoints
        /\ withFallback("addDocumentChunks", [documents |-> documents],
                        addDocumentChunksFallback(documents),
                        addDocumentChunksPrimary(documents, plan),
                        isFallbackActive)

searchByVector ==
    \E queryVector \in QueryVectors, k \in Limits, plan \in PlansNow(1) :
        withFallback("searchByVector", [queryVector |-> queryVector, limit |-> k],
                     searchByVectorFallback(queryVector, k),
                     searchByVectorPrimary(queryVector, k, plan),
                     isFallbackActive)

doesTranscriptExist ==
    \E videoId \in VideoIds, plan \in PlansNow(3) :
        withFallback("doesTranscriptExist", [videoId |-> videoId],
                     doesTranscriptExistFallback(videoId),
                     doesTranscriptExistPrimary(videoId, plan),
                     isFallbackActive)

deleteYoutubeTranscriptChunks ==
    \E videoId \in VideoIds, plan \in PlansNow(MaxCalls) :
        withFallback("deleteYoutubeTranscriptChunks", [videoId |-> videoId],
                     deleteYoutubeTranscriptChunksFallback(videoId),
                     deleteYoutubeTranscriptChunksPrimary(videoId, plan),
                     isFallbackActive)

countYoutubeTranscriptChunks ==
    \E videoId \in VideoIds, plan \in PlansNow(MaxCalls) :
        withFallback("countYoutubeTranscriptChunks", [videoId |-> videoId],
                     countYoutubeTranscriptChunksFallback(videoId),
                     countYoutubeTranscriptChunksPrimary(videoId, plan),
                     isFallbackActive)

getUniqueDocumentNames ==
    \E plan \in PlansNow(MaxCalls) :
        withFallback("getUniqueDocumentNames", NoArg,
                     getUniqueDocumentNamesFallback,
                     getUniqueDocumentNamesPrimary(plan),
                     isFallbackActive)

getChunksByDocumentName ==
    \E documentName \in DocumentNames, plan \in PlansNow(MaxCalls) :
        withFallback("getChunksByDocumentName", [documentName |-> documentName],
                     getChunksByDocumentNameFallback(documentName),
                     getChunksByDocumentNamePrimary(documentName, plan),
                     isFallbackActive)

\* deleteChunksByIds calling the client itself, not through withFallback
deleteChunksByIdsUnrouted ==
    \E chunkIds \in IdLists, plan \in Plans(2) :
        LET done == deleteChunksByIdsPrimary(chunkIds, plan)
        IN /\ UNCHANGED <<degraded, warned, collectionExists, indices, inMemoryDocuments>>
           /\ points' = done.points
           /\ last' = Call("deleteChunksByIds", [chunkIds |-> chunkIds], done.result, FALSE,
                           done.calls, done.failed, FALSE, 0, FALSE)

deleteChunksByIds ==
    \E chunkIds \in IdLists, plan \in PlansNow(2) :
        withFallback("deleteChunksByIds", [chunkIds |-> chunkIds],
                     deleteChunksByIdsFallback(chunkIds),
                     deleteChunksByIdsPrimary(chunkIds, plan),
                     isFallbackActive)

----------------------------------------------------------------------------
(* The specification *)

Init ==
    /\ degraded = FALSE
    /\ warned = {}
    /\ inMemoryDocuments = <<>>
    /\ points = <<>>
    /\ collectionExists \in BOOLEAN
    /\ indices = IF collectionExists THEN Range(PayloadIndices) ELSE {}
    /\ last = Call("none", NoArg, Void, FALSE, 0, 0, FALSE, 0, FALSE)

Next ==
    \/ initialize
    \/ addDocumentChunks
    \/ searchByVector
    \/ doesTranscriptExist
    \/ deleteYoutubeTranscriptChunks
    \/ countYoutubeTranscriptChunks
    \/ getUniqueDocumentNames
    \/ getChunksByDocumentName
    \/ deleteChunksByIds

Spec == Init /\ [][Next]_vars

----------------------------------------------------------------------------
(* Searches of a degraded store: the backend was down at start-up, and the *)
(* Local Store has been written since.                                     *)

SearchInit ==
    /\ degraded = TRUE
    /\ warned = {"initialize"}
    /\ inMemoryDocuments \in SearchStores
    /\ points = <<>>
    /\ collectionExists = FALSE
    /\ indices = {}
    /\ last = Call("none", NoArg, Void, FALSE, 0, 0, FALSE, 0, FALSE)

\* searchByVector, asked for the vectors and limits of a searched store
searchStored ==
    \E queryVector \in SearchVectors, k \in SearchLimits, plan \in PlansNow(1) :
        withFallback("searchByVector", [queryVector |-> queryVector, limit |-> k],
                     searchByVectorFallback(queryVector, k),
                     searchByVectorPrimary(queryVector, k, plan),
                     isFallbackActive)

SearchNext == searchStored

SearchSpec == SearchInit /\ [][SearchNext]_vars

----------------------------------------------------------------------------
(* Listings of a store that has been written: a healthy one, whose         *)
(* collection holds the records, or one degraded at start-up, whose Local  *)
(* Store holds them.                                                       *)

ListInit ==
    /\ degraded \in BOOLEAN
    /\ warned = IF degraded THEN {"initialize"} ELSE {}
    /\ collectionExists = ~degraded
    /\ indices = IF degraded THEN {} ELSE Range(PayloadIndices)
    /\ \E records \in ListRecords :
           /\ inMemoryDocuments = IF degraded THEN records ELSE <<>>
           /\ points = IF degraded THEN <<>> ELSE PointsOf(records)
    /\ last = Call("none", NoArg, Void, FALSE, 0, 0, FALSE, 0, FALSE)

ListNext ==
    \/ getUniqueDocumentNames
    \/ getChunksByDocumentName

ListSpec == ListInit /\ [][ListNext]_vars

----------------------------------------------------------------------------
(* The paginated scans of the primary path, one scroll request per step.   *)
(* A scan starts where its do-while loop is entered, on a healthy          *)
(* collection; every request resolves or rejects.                          *)

\* the scroll requests that read n points: a page of `limit` each, one for none
Pages(n) == IF n = 0 THEN 1 ELSE (n + limit - 1) \div limit

\* the collections of up to MaxScanned points, upserted from chunks whose vectors fit
ScanCollections ==
    UNION {{PointsOf(documents) :
                documents \in [1..n -> {c \in Chunks : Len(c.embedding) = VECTOR_SIZE}]} :
           n \in 0..MaxScanned}

\* no scan and no batch loop makes this many requests on MaxScanned points
MaxRequests == Pages(MaxScanned) + (MaxScanned + batchSize - 1) \div batchSize + 1

\* a scan at the entry of its loop: let nextPageOffset (undefined); held is what the
\* requests read, the collection or its points that match the filter
Scan(op, arg, held) ==
    [op |-> op, arg |-> arg, held |-> held, nextPageOffset |-> 0, calls |-> 0,
     chunksToDelete |-> <<>>, phase |-> "scroll", raised |-> FALSE]

ScanInit ==
    /\ degraded = FALSE
    /\ warned = {}
    /\ collectionExists = TRUE
    /\ indices = Range(PayloadIndices)
    /\ inMemoryDocuments = <<>>
    /\ points \in ScanCollections
    /\ last \in {Scan("getUniqueDocumentNames", NoArg, Identified(points))}
           \cup {Scan("getChunksByDocumentName", [documentName |-> name],
                      MatchName(Identified(points), name)) : name \in DocumentNames}
           \cup {Scan(op, [videoId |-> videoId], Identified(points)) :
                     op \in {"countYoutubeTranscriptChunks",
                             "deleteYoutubeTranscriptChunks"},
                     videoId \in VideoIds}

\* scroll with offset: undefined, the first page, whatever the cursor
ScanPageFromStart(held, nextPageOffset) == Page(held, 0, limit)

\* scroll(COLLECTION_NAME, {limit, offset: nextPageOffset})
ScanPage(held, nextPageOffset) == Page(held, nextPageOffset, limit)

\* one pass of do { scroll; ...; nextPageOffset = response.next_page_offset }
\* while (nextPageOffset): a rejected request leaves the loop for the catch block; the
\* delete scan collects the ids of the matching points and goes on to delete them
ScrollStep(collect) ==
    /\ last.phase = "scroll"
    /\ last.calls < MaxRequests
    /\ \E rejects \in BOOLEAN :
           LET response == ScanPage(last.held, last.nextPageOffset)
               matching == IF collect
                           THEN MatchText(response.points, idPattern(last.arg.videoId))
                           ELSE <<>>
               ids == last.chunksToDelete \o [i \in 1..Len(matching) |-> matching[i].id]
           IN last' = IF rejects
                      THEN [last EXCEPT !.calls = @ + 1, !.phase = "returned",
                                        !.raised = TRUE]
                      ELSE [last EXCEPT !.calls = @ + 1,
                                        !.nextPageOffset = response.next_page_offset,
                                        !.chunksToDelete = ids,
                                        !.phase = IF response.next_page_offset # 0
                                                  THEN "scroll"
                                                  ELSE IF ids # <<>> THEN "delete"
                                                  ELSE "returned"]
    /\ UNCHANGED <<degraded, warned, inMemoryDocuments, points, collectionExists,
                   indices>>

scrollUniqueDocumentNames ==
    last.op = "getUniqueDocumentNames" /\ ScrollStep(FALSE)

scrollChunksByDocumentName ==
    last.op = "getChunksByDocumentName" /\ ScrollStep(FALSE)

scrollCountYoutubeTranscriptChunks ==
    last.op = "countYoutubeTranscriptChunks" /\ ScrollStep(FALSE)

scrollDeleteYoutubeTranscriptChunks ==
    last.op = "deleteYoutubeTranscriptChunks" /\ ScrollStep(TRUE)

\* one pass of for (i = 0; i < chunksToDelete.length; i += batchSize) delete(points: batch)
deleteBatch ==
    /\ last.op = "deleteYoutubeTranscriptChunks"
    /\ last.phase = "delete"
    /\ last.calls < MaxRequests
    /\ \E rejects \in BOOLEAN :
           LET batch == Slice(last.chunksToDelete, 1, batchSize)
               rest == SubSeq(last.chunksToDelete, Len(batch) + 1,
                              Len(last.chunksToDelete))
           IN IF rejects
              THEN /\ last' = [last EXCEPT !.calls = @ + 1, !.phase = "returned",
                                           !.raised = TRUE]
                   /\ UNCHANGED points
              ELSE /\ last' = [last EXCEPT !.calls = @ + 1,
                                           !.held = WithoutIds(@, batch),
                                           !.chunksToDelete = rest,
                                           !.phase = IF rest = <<>> THEN "returned"
                                                     ELSE "delete"]
                   /\ points' = Stored(WithoutIds(last.held, batch))
    /\ UNCHANGED <<degraded, warned, inMemoryDocuments, collectionExists, indices>>

ScanNext ==
    \/ scrollUniqueDocumentNames
    \/ scrollChunksByDocumentName
    \/ scrollCountYoutubeTranscriptChunks
    \/ scrollDeleteYoutubeTranscriptChunks
    \/ deleteBatch

\* a request that was sent resolves or rejects, and the loop goes on
ScanSpec == ScanInit /\ [][ScanNext]_vars /\ WF_vars(ScanNext)

----------------------------------------------------------------------------
(* Concurrent callers of addDocumentChunks and deleteChunksByIds.  A call   *)
(* runs from one await to the next in one step; the calls of other callers  *)
(* run in between.  `last` holds, for each caller, the call it has in       *)
(* flight.                                                                  *)

Callers == 1..NumCallers

\* a caller with no call in flight
Idle == [pc |-> "idle", op |-> "none", arg |-> NoArg]

\* a call waiting for the request named by pc to settle
Awaiting(pc, op, arg) == [pc |-> pc, op |-> op, arg |-> arg]

\* the points of the upsert requests in flight, of the callers up to c
RECURSIVE InFlight(_)
InFlight(c) ==
    IF c = 0 THEN 0
    ELSE InFlight(c - 1)
            + (IF last[c].pc = "upsert" THEN Len(last[c].arg.documents) ELSE 0)

ConcInit ==
    /\ degraded = FALSE
    /\ warned = {}
    /\ collectionExists = TRUE
    /\ indices = Range(PayloadIndices)
    /\ inMemoryDocuments = <<>>
    /\ points = <<>>
    /\ last = [c \in Callers |-> Idle]

\* addDocumentChunks up to its await: withFallback reads the flag; set, the fallback
\* function runs; clear, the primary function builds the points and sends the upsert
callAddDocumentChunks(c) ==
    /\ last[c].pc = "idle"
    /\ \E documents \in Batches :
           /\ Len(points) + InFlight(NumCallers) + Len(documents) <= MaxPoints
           /\ IF isFallbackActive
              THEN /\ inMemoryDocuments' = addDocumentChunksFallback(documents).mem
                   /\ UNCHANGED last
              ELSE /\ UNCHANGED inMemoryDocuments
                   /\ last' = IF Len(documents) = 0 THEN last
                              ELSE [last EXCEPT ![c] =
                                       Awaiting("upsert", "addDocumentChunks",
                                                [documents |-> documents])]
    /\ UNCHANGED <<degraded, warned, points, collectionExists, indices>>

\* the upsert settles: resolved, the collection holds the points; rejected, withFallback
\* hands the error to handleError and runs the fallback function
upsertSettles(c) ==
    /\ last[c].pc = "upsert"
    /\ LET documents == last[c].arg.documents
           new == PointsOf(documents)
       IN \E rejects \in BOOLEAN :
              IF rejects \/ ~VectorsFit(new) \/ ~collectionExists
              THEN /\ handleError("addDocumentChunks")
                   /\ inMemoryDocuments' = addDocumentChunksFallback(documents).mem
                   /\ UNCHANGED points
              ELSE /\ points' = Upsert(points, new)
                   /\ UNCHANGED <<degraded, warned, inMemoryDocuments>>
    /\ last' = [last EXCEPT ![c] = Idle]
    /\ UNCHANGED <<collectionExists, indices>>

\* deleteChunksByIds up to its await: the fallback function when the flag is set, else
\* the count request of the primary function
callDeleteChunksByIds(c) ==
    /\ last[c].pc = "idle"
    /\ \E chunkIds \in IdLists :
           IF isFallbackActive
           THEN /\ inMemoryDocuments' = deleteChunksByIdsFallback(chunkIds).mem
                /\ UNCHANGED last
           ELSE /\ UNCHANGED inMemoryDocuments
                /\ last' = IF Len(chunkIds) = 0 THEN last
                           ELSE [last EXCEPT ![c] =
                                    Awaiting("count", "deleteChunksByIds",
                                             [chunkIds |-> chunkIds])]
    /\ UNCHANGED <<degraded, warned, points, collectionExists, indices>>

\* the count settles: rejected, the catch block returns 0; resolved with 0, the call
\* returns 0; else the delete request is sent
countSettles(c) ==
    /\ last[c].pc = "count"
    /\ \E rejects \in BOOLEAN :
           last' = IF rejects \/ Len(MatchAny(points, last[c].arg.chunkIds)) = 0
                   THEN [last EXCEPT ![c] = Idle]
                   ELSE [last EXCEPT ![c].pc = "delete"]
    /\ UNCHANGED <<degraded, warned, inMemoryDocuments, points, collectionExists,
                   indices>>

\* the delete by filter settles: resolved, the matching points are gone; rejected, the
\* catch block returns 0
deleteSettles(c) ==
    /\ last[c].pc = "delete"
    /\ \E rejects \in BOOLEAN :
           points' = IF rejects THEN points
                     ELSE Without(points, MatchAny(points, last[c].arg.chunkIds))
    /\ last' = [last EXCEPT ![c] = Idle]
    /\ UNCHANGED <<degraded, warned, inMemoryDocuments, collectionExists, indices>>

ConcNext ==
    \E c \in Callers :
        \/ callAddDocumentChunks(c)
        \/ upsertSettles(c)
        \/ callDeleteChunksByIds(c)
        \/ countSettles(c)
        \/ deleteSettles(c)

ConcSpec == ConcInit /\ [][ConcNext]_vars

----------------------------------------------------------------------------
(* What the claims are stated in *)

FacadeOps ==
    {"addDocumentChunks", "searchByVector", "doesTranscriptExist",
     "deleteYoutubeTranscriptChunks", "countYoutubeTranscriptChunks",
     "getUniqueDocumentNames", "getChunksByDocumentName", "deleteChunksByIds"}

\* what the Local Store computes for an operation and its argument
FallbackOf(op, arg) ==
    CASE op = "addDocumentChunks" -> addDocumentChunksFallback(arg.documents)
      [] op = "searchByVector" -> searchByVectorFallback(arg.queryVector, arg.limit)
      [] op = "doesTranscriptExist" -> doesTranscriptExistFallback(arg.videoId)
      [] op = "deleteYoutubeTranscriptChunks" ->
             deleteYoutubeTranscriptChunksFallback(arg.videoId)
      [] op = "countYoutubeTranscriptChunks" ->
             countYoutubeTranscriptChunksFallback(arg.videoId)
      [] op = "getUniqueDocumentNames" -> getUniqueDocumentNamesFallback
      [] op = "getChunksByDocumentName" ->
             getChunksByDocumentNameFallback(arg.documentName)
      [] op = "deleteChunksByIds" -> deleteChunksByIdsFallback(arg.chunkIds)

\* the logical ids of the records a store holds, as a sequence
IdsOf(mem) == [i \in 1..Len(mem) |-> mem[i].id]

PayloadIdsOf(pts) == [i \in 1..Len(pts) |-> pts[i].payload.id]

\* no element of the sequence occurs twice
NoDuplicates(s) == \A i, j \in 1..Len(s) : s[i] = s[j] => i = j

\* the elements of s that start with p
CountPrefix(s, p) == Len(SelectSeq(s, LAMBDA x : startsWith(x, p)))

----------------------------------------------------------------------------
(* C1: once a call's primary attempt has raised (and so while the degraded *)
(* flag is set), every later call to a facade operation, whatever its      *)
(* name, runs its fallback function only, makes no client call, and leaves *)
(* the flag set.                                                           *)
C1_DegradedIsGlobal ==
    [][((last.primaryRaised \/ degraded) /\ last'.op \in FacadeOps)
        => /\ last'.calls = 0
           /\ last'.fallbackRuns = 1
           /\ ~last'.primaryRaised
           /\ degraded']_vars

\* degraded by a failed addDocumentChunks, and a later listing answered by the Local Store
C1_Witness ==
    /\ degraded
    /\ "addDocumentChunks" \in warned
    /\ last.op = "getUniqueDocumentNames"
    /\ last.calls = 0
    /\ last.fallbackRuns = 1

(* C2: a call made while the flag is clear whose primary function raises   *)
(* sets the flag, runs the fallback function once, returns the fallback's  *)
(* result and leaves the Local Store as the fallback left it; no error     *)
(* reaches the caller.                                                     *)
C2_PrimaryFailureFallsBack ==
    [][(~degraded /\ last'.op \in FacadeOps /\ last'.primaryRaised)
        => /\ degraded'
           /\ last'.fallbackRuns = 1
           /\ ~last'.raised
           /\ last'.result = FallbackOf(last'.op, last'.arg).result
           /\ inMemoryDocuments' = FallbackOf(last'.op, last'.arg).mem]_vars

\* a prefix delete whose primary raised after it had made client calls
C2_Witness ==
    /\ last.op = "deleteYoutubeTranscriptChunks"
    /\ last.primaryRaised
    /\ last.calls > 1
    /\ last.fallbackRuns = 1
    /\ ~last.raised
    /\ degraded

(* C3: a facade operation called while the flag is clear, every client     *)
(* call of which raises, returns without error what the Local Store        *)
(* computes for it and leaves the flag set.                                *)
C3_UnreachableFallsBack ==
    [][(~degraded /\ last'.op \in FacadeOps /\ last'.calls > 0
            /\ last'.failed = last'.calls)
        => /\ degraded'
           /\ ~last'.raised
           /\ last'.result = FallbackOf(last'.op, last'.arg).result]_vars

(* C4: initialize never raises to its caller, and when one of its          *)
(* bootstrap calls raised, the flag is set when it returns.                *)
C4_InitializeNeverRaises ==
    last.op = "initialize" => (~last.raised /\ (last.failed > 0 => degraded))

\* an initialize that created the collection and failed on an index
C4_Witness ==
    /\ last.op = "initialize"
    /\ last.failed > 0
    /\ last.calls > 2
    /\ collectionExists
    /\ indices # Range(PayloadIndices)
    /\ degraded

(* C5: an initialize that completes successfully while the flag is set     *)
(* clears the flag.                                                        *)
C5_SuccessfulInitializeClears ==
    [][(degraded /\ last'.op = "initialize" /\ ~last'.primaryRaised) => ~degraded']_vars

(* C6: neither store holds two records of one logical id.                  *)
C6_OneRecordPerId ==
    /\ NoDuplicates(IdsOf(inMemoryDocuments))
    /\ NoDuplicates(PayloadIdsOf(points))

(* C7: every stored record has an embedding of the configured size, and an *)
(* addDocumentChunks call given a record of another size raises.           *)
C7_DimensionEnforced ==
    /\ \A i \in 1..Len(inMemoryDocuments) :
           Len(inMemoryDocuments[i].embedding) = VECTOR_SIZE
    /\ \A i \in 1..Len(points) : Len(points[i].vector) = VECTOR_SIZE
    /\ (last.op = "addDocumentChunks"
            /\ \E i \in 1..Len(last.arg.documents) :
                   Len(last.arg.documents[i].embedding) # VECTOR_SIZE)
       => last.raised

(* C8: the existence check and the count that follow a prefix delete of    *)
(* the same video id return false and 0, whichever store answers each.     *)
C8_DeleteThenAbsent ==
    [][(last.op = "deleteYoutubeTranscriptChunks"
            /\ last'.op \in {"doesTranscriptExist", "countYoutubeTranscriptChunks"}
            /\ last'.arg = last.arg)
        => /\ last'.op = "doesTranscriptExist" => last'.result = Boolean(FALSE)
           /\ last'.op = "countYoutubeTranscriptChunks" => last'.result = Number(0)]_vars

\* a prefix delete that the primary answered, after its native filter failed, with a match
C8_Witness ==
    /\ last.op = "deleteYoutubeTranscriptChunks"
    /\ last.result.number > 0
    /\ last.calls > 2
    /\ last.failed > 0
    /\ ~last.primaryRaised

(* C9: the count returns the number of records, of the store that answers, *)
(* whose id starts with the string the caller supplied, the delete returns *)
(* that number, and a listing names the documents of exactly the records   *)
(* the store that answers it holds.                                        *)
C9_CountsCallerPrefix ==
    [][/\ (last'.op \in {"countYoutubeTranscriptChunks", "deleteYoutubeTranscriptChunks"})
          => last'.result =
                IF last'.fallbackRuns = 1
                THEN Number(CountPrefix(IdsOf(inMemoryDocuments), last'.arg.videoId))
                ELSE Number(CountPrefix(PayloadIdsOf(points), last'.arg.videoId))
       /\ (last'.op = "getUniqueDocumentNames")
          => Range(last'.result.names) =
                IF last'.fallbackRuns = 1
                THEN {d.documentName : d \in Range(inMemoryDocuments')}
                ELSE {q.payload.documentName : q \in Range(points')}]_vars

(* C10: addDocumentChunks([]) and deleteChunksByIds([]) return void and 0  *)
(* without error, make no client call and change neither store nor the     *)
(* flag.                                                                   *)
C10_EmptyIsNoOp ==
    [][(last'.arg = [documents |-> <<>>] \/ last'.arg = [chunkIds |-> <<>>])
        => /\ last'.calls = 0
           /\ ~last'.raised
           /\ last'.result = (IF last'.op = "addDocumentChunks" THEN Void ELSE Number(0))
           /\ UNCHANGED <<inMemoryDocuments, points, degraded>>]_vars

\* deleteChunksByIds([]) on a healthy store that holds points
C10_Witness ==
    /\ last.op = "deleteChunksByIds"
    /\ last.arg = [chunkIds |-> <<>>]
    /\ last.result = Number(0)
    /\ last.calls = 0
    /\ last.fallbackRuns = 0
    /\ ~degraded
    /\ Len(points) > 0

\* the records the store that answered the last call holds, as the results name them
AnsweringRecords ==
    IF last.fallbackRuns = 1
    THEN Range(inMemoryDocuments)
    ELSE {points[i].payload : i \in 1..Len(points)}

(* C11: every result of searchByVector and of getChunksByDocumentName has  *)
(* a domains list, and the result of a stored record that has no domains   *)
(* field has domains = ["default"], whichever store answered.              *)
C11_DomainsDefaulted ==
    (last.op \in {"searchByVector", "getChunksByDocumentName"})
        => \A i \in 1..Len(last.result.results) :
               LET r == last.result.results[i]
               IN /\ "domains" \in DOMAIN r
                  /\ \A d \in AnsweringRecords :
                         (d.id = r.id /\ d.content = r.content /\ "domains" \notin DOMAIN d)
                             => r.domains = <<"default">>

\* the stored record a result was made from
StoredAs(r) == CHOOSE d \in Range(inMemoryDocuments) : d.id = r.id

(* C12: a search of the Local Store returns exactly min(limit, n) of its n *)
(* records, each at most once, in non-increasing order of score.           *)
C12_LimitedAndSorted ==
    (last.op = "searchByVector" /\ last.fallbackRuns = 1)
        => LET results == last.result.results
           IN /\ Len(results) = Min(last.arg.limit, Len(inMemoryDocuments))
              /\ Len(results) <= Len(inMemoryDocuments)
              /\ NoDuplicates([i \in 1..Len(results) |-> results[i].id])
              /\ \A i \in 1..Len(results) : results[i].id \in Range(IdsOf(inMemoryDocuments))
              /\ \A i \in 1..(Len(results) - 1) :
                     ~ScoreGreater(results[i + 1].score, results[i].score)

\* limit 2 over 3 records, the best of which was stored last
C12_Witness ==
    /\ last.op = "searchByVector"
    /\ last.fallbackRuns = 1
    /\ Len(inMemoryDocuments) = 3
    /\ last.arg.limit = 2
    /\ Len(last.result.results) = 2
    /\ last.result.results[1].id = inMemoryDocuments[3].id
    /\ ScoreGreater(last.result.results[1].score, last.result.results[2].score)

C14_ZeroMagnitudeScoresZero ==
    (last.op = "searchByVector" /\ last.fallbackRuns = 1)
        => \A i \in 1..Len(last.result.results) :
               LET r == last.result.results[i]
                   e == StoredAs(r).embedding
                   q == last.arg.queryVector
               IN /\ r.score[2] > 0
                  /\ (Dot(q, q) = 0 \/ Dot(e, e) = 0) => r.score = Zero

\* the zero vector searched for in a store that holds a zero vector and a non-zero one
C14_Witness ==
    /\ last.op = "searchByVector"
    /\ last.fallbackRuns = 1
    /\ last.arg.queryVector = <<0, 0>>
    /\ Len(last.result.results) = 2
    /\ \E i \in 1..Len(inMemoryDocuments) : inMemoryDocuments[i].embedding = <<0, 0>>
    /\ \E i \in 1..Len(inMemoryDocuments) : inMemoryDocuments[i].embedding = <<1, 1>>
    /\ \A i \in 1..2 : last.result.results[i].score = Zero

(* C15: a prefix operation tried on the primary path, every client call of *)
(* which raised (so every tier of its cascade raised), answers false or 0  *)
(* as the primary path's answer: the primary function does not raise, the  *)
(* fallback is not run and the store is not degraded by it.                *)
C15_ExhaustedTiersDefault ==
    [][(~degraded
            /\ last'.op \in {"doesTranscriptExist", "countYoutubeTranscriptChunks",
                             "deleteYoutubeTranscriptChunks"}
            /\ last'.calls > 0 /\ last'.failed = last'.calls)
        => /\ ~last'.primaryRaised
           /\ ~last'.raised
           /\ last'.fallbackRuns = 0
           /\ last'.result = (IF last'.op = "doesTranscriptExist"
                              THEN Boolean(FALSE) ELSE Number(0))]_vars

\* the call `last'` records, made by a DatabaseService that hands withFallback
\* forceFallback = false instead of isFallbackActive()
WithoutPreCheck ==
    LET op == last'.op
        arg == last'.arg
    IN \/ initialize
       \/ /\ op = "addDocumentChunks"
          /\ \E plan \in PlansNow(1) :
                 withFallback(op, arg, addDocumentChunksFallback(arg.documents),
                              addDocumentChunksPrimary(arg.documents, plan), FALSE)
       \/ /\ op = "searchByVector"
          /\ \E plan \in PlansNow(1) :
                 withFallback(op, arg, searchByVectorFallback(arg.queryVector, arg.limit),
                              searchByVectorPrimary(arg.queryVector, arg.limit, plan), FALSE)
       \/ /\ op = "doesTranscriptExist"
          /\ \E plan \in PlansNow(3) :
                 withFallback(op, arg, doesTranscriptExistFallback(arg.videoId),
                              doesTranscriptExistPrimary(arg.videoId, plan), FALSE)
       \/ /\ op = "deleteYoutubeTranscriptChunks"
          /\ \E plan \in PlansNow(MaxCalls) :
                 withFallback(op, arg, deleteYoutubeTranscriptChunksFallback(arg.videoId),
                              deleteYoutubeTranscriptChunksPrimary(arg.videoId, plan), FALSE)
       \/ /\ op = "countYoutubeTranscriptChunks"
          /\ \E plan \in PlansNow(MaxCalls) :
                 withFallback(op, arg, countYoutubeTranscriptChunksFallback(arg.videoId),
                              countYoutubeTranscriptChunksPrimary(arg.videoId, plan), FALSE)
       \/ /\ op = "getUniqueDocumentNames"
          /\ \E plan \in PlansNow(MaxCalls) :
                 withFallback(op, arg, getUniqueDocumentNamesFallback,
                              getUniqueDocumentNamesPrimary(plan), FALSE)
       \/ /\ op = "getChunksByDocumentName"
          /\ \E plan \in PlansNow(MaxCalls) :
                 withFallback(op, arg, getChunksByDocumentNameFallback(arg.documentName),
                              getChunksByDocumentNamePrimary(arg.documentName, plan), FALSE)
       \/ /\ op = "deleteChunksByIds"
          /\ \E plan \in PlansNow(2) :
                 withFallback(op, arg, deleteChunksByIdsFallback(arg.chunkIds),
                              deleteChunksByIdsPrimary(arg.chunkIds, plan), FALSE)

(* C16: every call of a degraded store returns what the same call returns, *)
(* and leaves the flag, the Local Store and the collection as the same     *)
(* call leaves them, when withFallback is handed forceFallback = false.    *)
(* (While the flag is clear isFallbackActive() is false, and the two are   *)
(* the same call.)                                                         *)
C16_PreCheckIsOptimization == [][degraded => WithoutPreCheck]_vars

\* a search answered by the Local Store of a degraded store whose collection holds points
C16_Witness ==
    /\ degraded
    /\ last.op = "searchByVector"
    /\ last.fallbackRuns = 1
    /\ last.calls = 0
    /\ Len(points) > 0
    /\ Len(inMemoryDocuments) > 0

\* the points of the collection whose id starts with the pattern of the video id
Matching(videoId) ==
    Len(SelectSeq(points, LAMBDA q : startsWith(q.payload.id, idPattern(videoId))))

(* C17: a prefix operation tried on the primary path goes no further than  *)
(* the native filter when that does not raise; gives up only after three   *)
(* tiers (native filter, filtered scroll, unfiltered scroll) have raised;  *)
(* and, when a tier answered, answers for the whole collection: whether    *)
(* any point matches, or how many do.                                      *)
C17_ThreeTierCascade ==
    [][(~degraded
            /\ last'.op \in {"doesTranscriptExist", "countYoutubeTranscriptChunks",
                             "deleteYoutubeTranscriptChunks"})
        => LET found == Matching(last'.arg.videoId)
           IN /\ last'.failed = 0
                 => last'.calls = (IF last'.op = "deleteYoutubeTranscriptChunks" /\ found > 0
                                   THEN 2 ELSE 1)
              /\ (last'.primaryRaised \/ last'.failed = last'.calls) => last'.failed >= 3
              /\ (~last'.primaryRaised /\ last'.failed < last'.calls)
                 => last'.result = (IF last'.op = "doesTranscriptExist"
                                    THEN Boolean(found > 0) ELSE Number(found))]_vars

(* C18: a primary failure emits a warning exactly when its operation name  *)
(* is not suppressed: not when the same name failed in the call before,    *)
(* again when a successful initialize has reset the name in between, and   *)
(* whatever other names have failed.                                       *)
C18_WarnOncePerName ==
    [][last'.primaryRaised
        => /\ (last.primaryRaised /\ last.op = last'.op) => ~last'.warning
           /\ (last.op = "initialize" /\ ~last.primaryRaised /\ last'.op = "initialize")
                  => last'.warning
           /\ last'.warning <=> last'.op \notin warned
           /\ last'.op \in warned']_vars

\* initialize fails and warns on a store that a failed addDocumentChunks had degraded
C18_Witness ==
    /\ degraded
    /\ last.op = "initialize"
    /\ last.primaryRaised
    /\ last.warning
    /\ warned = {"addDocumentChunks", "initialize"}
    /\ Len(inMemoryDocuments) > 0

C21_InitializeIdempotent ==
    [][last'.op = "initialize" =>
         /\ collectionExists => last'.calls = 1
         /\ (last.op = "initialize" /\ ~last.primaryRaised /\ ~last'.primaryRaised) =>
                /\ last'.calls = 1
                /\ UNCHANGED <<collectionExists, indices, points, degraded,
                               inMemoryDocuments>>]_vars

\* a second successful initialize in a row, on a collection that holds points
C21_Witness ==
    /\ last.op = "initialize" /\ ~last.primaryRaised /\ last.calls = 1
    /\ collectionExists /\ indices = Range(PayloadIndices) /\ Len(points) > 0

\* C22: a facade call writes to and deletes from one backend only: a call that changes
\* the primary collection leaves the Local Store as it was, a call that ran on the primary
\* path alone never touches the Local Store, and a call that ran on the Local Store alone
\* never touches the collection; a delete whose primary attempt raised after some of its
\* delete batches is such a call
C22_OneBackendPerCall ==
    [][/\ points' # points => inMemoryDocuments' = inMemoryDocuments
       /\ inMemoryDocuments' # inMemoryDocuments => points' = points
       /\ (last'.op \in FacadeOps /\ last'.fallbackRuns = 0) =>
              inMemoryDocuments' = inMemoryDocuments
       /\ (last'.op \in FacadeOps /\ ~last'.primaryRaised /\ last'.fallbackRuns = 1) =>
              points' = points]_vars

\* a delete by prefix whose request failed, whose scan found three points and whose
\* second delete batch failed after the first had removed two of them
C22_Witness ==
    /\ last.op = "deleteYoutubeTranscriptChunks" /\ last.primaryRaised
    /\ last.calls = 5 /\ last.failed = 2
    /\ Len(points) = 1 /\ inMemoryDocuments = <<>>

\* C23: when the count and the filtered scroll of doesTranscriptExist raise and its
\* unfiltered scroll succeeds, the answer is true exactly when some point of the whole
\* collection, on whatever page, has an id that starts with the pattern
C23_LastResortReadsAll ==
    (/\ last.op = "doesTranscriptExist" /\ last.fallbackRuns = 0
     /\ last.calls = 3 /\ last.failed = 2)
        => last.result = Boolean(Matching(last.arg.videoId) > 0)

\* the place of an id in the iteration order of a store
PlaceOf(mem, id) == CHOOSE i \in 1..Len(mem) : mem[i].id = id

\* neither score is greater than the other
SameScore(s, t) == ~ScoreGreater(s, t) /\ ~ScoreGreater(t, s)

\* results of equal score stand in the order of the store, and a record left out by the
\* truncation stands, in the store, after every result of its score
TiesInStoreOrder(results, queryVector, mem) ==
    /\ \A i, j \in 1..Len(results) :
           (i < j /\ SameScore(results[i].score, results[j].score))
               => PlaceOf(mem, results[i].id) < PlaceOf(mem, results[j].id)
    /\ \A i \in 1..Len(results), n \in 1..Len(mem) :
           (/\ mem[n].id \notin {results[j].id : j \in 1..Len(results)}
            /\ SameScore(results[i].score, cosineSimilarity(queryVector, mem[n].embedding)))
               => PlaceOf(mem, results[i].id) < n

\* C24: in a search result of the Local Store, records of equal score stand in the
\* store's iteration order, which is the order in which their ids were first inserted
\* (an insert of a stored id leaves every id in its place), and the truncation to the
\* limit keeps the earlier of them
C24_TiesInInsertionOrder ==
    [][/\ (last'.op = "addDocumentChunks" /\ last'.fallbackRuns = 1) =>
              LET before == IdsOf(inMemoryDocuments)
                  after == IdsOf(inMemoryDocuments')
              IN /\ Len(before) <= Len(after)
                 /\ SubSeq(after, 1, Len(before)) = before
       /\ (last'.op = "searchByVector" /\ last'.fallbackRuns = 1) =>
              TiesInStoreOrder(last'.result.results, last'.arg.queryVector,
                               inMemoryDocuments)]_vars

\* a search with limit 1 of a store of two records of equal score, the first of which
\* holds the later version of its chunk: the result is the first record
C24_Witness ==
    /\ last.op = "searchByVector" /\ last.fallbackRuns = 1
    /\ last.arg = [queryVector |-> <<0, 0>>, limit |-> 1]
    /\ Len(inMemoryDocuments) = 2
    /\ inMemoryDocuments[1].content = "v2"
    /\ Len(last.result.results) = 1
    /\ last.result.results[1].id = inMemoryDocuments[1].id

\* C25: a delete by prefix that the Local Store answers removes the records whose id
\* starts with the pattern and no other, leaves the others as they were and in their
\* order, and returns the number of records removed, which is what a count of the same
\* prefix returned on the Local Store just before
C25_LocalDeleteByPrefix ==
    [][(last'.op = "deleteYoutubeTranscriptChunks" /\ last'.fallbackRuns = 1) =>
          LET pattern == idPattern(last'.arg.videoId)
              others == {i \in 1..Len(inMemoryDocuments) :
                            ~startsWith(inMemoryDocuments[i].id, pattern)}
          IN /\ Len(inMemoryDocuments') = Cardinality(others)
             /\ \A i \in others : \E n \in 1..Len(inMemoryDocuments') :
                    inMemoryDocuments'[n] = inMemoryDocuments[i]
             /\ \A m, n \in 1..Len(inMemoryDocuments') :
                    m < n => PlaceOf(inMemoryDocuments, inMemoryDocuments'[m].id)
                                < PlaceOf(inMemoryDocuments, inMemoryDocuments'[n].id)
             /\ last'.result = Number(Len(inMemoryDocuments) - Cardinality(others))
             /\ ~last'.raised
             /\ (/\ last.op = "countYoutubeTranscriptChunks" /\ last.fallbackRuns = 1
                 /\ last.arg = last'.arg)
                    => last'.result = last.result]_vars

\* a delete by prefix on the degraded store that removed one record and left another
C25_Witness ==
    /\ last.op = "deleteYoutubeTranscriptChunks"
    /\ last.fallbackRuns = 1 /\ ~last.primaryRaised
    /\ last.result = Number(1)
    /\ Len(inMemoryDocuments) = 1

\* C26: a delete by ids that the Local Store answers returns the number of distinct
\* listed ids that were stored, an id listed twice counting once; afterwards no listed
\* id is stored and the records of the other ids are as they were, in their order
C26_LocalDeleteByIds ==
    [][(last'.op = "deleteChunksByIds" /\ last'.fallbackRuns = 1) =>
          LET listed == Range(last'.arg.chunkIds)
              others == {i \in 1..Len(inMemoryDocuments) :
                            inMemoryDocuments[i].id \notin listed}
          IN /\ last'.result =
                    Number(Cardinality(listed \cap Range(IdsOf(inMemoryDocuments))))
             /\ ~last'.raised
             /\ listed \cap Range(IdsOf(inMemoryDocuments')) = {}
             /\ Len(inMemoryDocuments') = Cardinality(others)
             /\ \A i \in others : \E n \in 1..Len(inMemoryDocuments') :
                    inMemoryDocuments'[n] = inMemoryDocuments[i]
             /\ \A m, n \in 1..Len(inMemoryDocuments') :
                    m < n => PlaceOf(inMemoryDocuments, inMemoryDocuments'[m].id)
                                < PlaceOf(inMemoryDocuments, inMemoryDocuments'[n].id)]_vars

\* a delete on the degraded store of a list that names one id twice: one record was
\* removed, counted once, and another record remains
C26_Witness ==
    /\ last.op = "deleteChunksByIds" /\ last.fallbackRuns = 1 /\ ~last.primaryRaised
    /\ Len(last.arg.chunkIds) = 2 /\ last.arg.chunkIds[1] = last.arg.chunkIds[2]
    /\ last.result = Number(1)
    /\ Len(inMemoryDocuments) = 1

\* the scan has left its loops, for the return or for the catch block
ScanReturned == last.phase = "returned"

\* C27: every paginated scan of the primary path (of the listing, of
\* getChunksByDocumentName, of the count and of the delete by prefix) ends: on a finite
\* collection whose last page carries no cursor, the loop is left after finitely many
\* page requests, at most one per page, and the operation returns
C27_ScansTerminate ==
    /\ <>ScanReturned
    /\ [](last.phase = "scroll" => last.calls < Pages(Len(last.held)))

\* a scan that returned after three page requests, none of them rejected
C27_Witness ==
    /\ ScanReturned /\ ~last.raised
    /\ last.op # "deleteYoutubeTranscriptChunks"
    /\ last.calls = 3

\* C28: whenever initialize completes on its success path the collection exists and has
\* its indices on documentName, title and domains, also when an earlier initialize had
\* created the collection and failed before it had created all three
C28_InitializedHasIndices ==
    (last.op = "initialize" /\ ~last.primaryRaised)
        => (collectionExists /\ indices = Range(PayloadIndices))

\* the last call was answered by the Local Store, or by a tier of the primary path
AnsweredBy(call) ==
    IF call.fallbackRuns = 1 THEN "local"
    ELSE IF ~call.raised /\ call.failed < call.calls THEN "primary"
    ELSE "none"

\* C29: an existence check and a count of the same prefix, one made right after the
\* other, agree: the check is true exactly when the count is greater than 0, on the
\* Local Store and on the primary path, whichever tier of each operation answered
C29_ExistsIffCounted ==
    [][(/\ {last.op, last'.op} = {"doesTranscriptExist", "countYoutubeTranscriptChunks"}
        /\ last.arg = last'.arg
        /\ AnsweredBy(last) = AnsweredBy(last')
        /\ AnsweredBy(last) # "none")
        => LET exists == IF last.op = "doesTranscriptExist" THEN last ELSE last'
               count == IF last.op = "doesTranscriptExist" THEN last' ELSE last
           IN exists.result = Boolean(count.result.number > 0)]_vars

\* the source document of a chunk id: the id is the source type, the source id and the
\* chunk index, joined by underscores
SourceOf(id) == SubSeq(id, 2, Len(id) - 1)

\* the ids among `ids` of the chunks of other source documents than videoId
OthersOf(ids, videoId) == SelectSeq(ids, LAMBDA id : SourceOf(id) # videoId)

\* C30: a delete by prefix and a count by prefix made for one source document delete
\* and count chunks of that source document only, never a chunk of another one, also
\* when the identifier of the one is a string prefix of the identifier of the other
C30_OnlyOwnChunks ==
    [][/\ last'.op = "deleteYoutubeTranscriptChunks" =>
              /\ OthersOf(IdsOf(inMemoryDocuments'), last'.arg.videoId)
                    = OthersOf(IdsOf(inMemoryDocuments), last'.arg.videoId)
              /\ OthersOf(PayloadIdsOf(points'), last'.arg.videoId)
                    = OthersOf(PayloadIdsOf(points), last'.arg.videoId)
       /\ (last'.op = "countYoutubeTranscriptChunks" /\ ~last'.raised) =>
              LET ids == IF last'.fallbackRuns = 1 THEN IdsOf(inMemoryDocuments')
                         ELSE PayloadIdsOf(points')
              IN last'.result.number
                    <= Len(ids) - Len(OthersOf(ids, last'.arg.videoId))]_vars

\* the records of a batch that no later record of the batch has the id of
LastOfId(documents) ==
    {documents[i] : i \in {n \in 1..Len(documents) :
                              \A m \in (n + 1)..Len(documents) :
                                  documents[m].id # documents[n].id}}

\* C31: read your writes: a getChunksByDocumentName(name) that directly follows an
\* addDocumentChunks(records), no request of either having failed but the add's own
\* upsert, returns every record of the batch whose documentName is name: a result has
\* its id, and for the record that stands last for its id a result has its content;
\* this whether the collection took the batch or the Local Store did.  A call in
\* between that is no delete and whose primary attempt did not fail leaves the flag as
\* it was and every stored id stored
C31_ReadYourWrites ==
    [][/\ (/\ last'.op \in FacadeOps
           /\ last'.op \notin {"deleteYoutubeTranscriptChunks", "deleteChunksByIds"}
           /\ last'.failed = 0 /\ ~last'.primaryRaised)
          => /\ degraded' = degraded
             /\ Range(PayloadIdsOf(points)) \subseteq Range(PayloadIdsOf(points'))
             /\ Range(IdsOf(inMemoryDocuments)) \subseteq Range(IdsOf(inMemoryDocuments'))
       /\ (/\ last.op = "addDocumentChunks" /\ ~last.raised
           /\ last'.op = "getChunksByDocumentName" /\ last'.failed = 0)
        => LET written == {d \in Range(last.arg.documents) :
                              d.documentName = last'.arg.documentName}
               results == Range(last'.result.results)
           IN /\ \A d \in written : \E r \in results : r.id = d.id
              /\ \A d \in written \cap LastOfId(last.arg.documents) :
                     \E r \in results : r.id = d.id /\ r.content = d.content]_vars

\* a getChunksByDocumentName answered by the Local Store with the chunk whose vector
\* the collection does not take
C31_Witness ==
    /\ last.op = "getChunksByDocumentName" /\ last.fallbackRuns = 1
    /\ Len(last.result.results) = 1
    /\ last.result.results[1].content = "v2"

\* C32: with concurrent callers, while the degraded flag is set no upsert and no
\* delete reaches the primary collection: a call that read the flag clear and began its
\* primary attempt before the failure of another call set the flag leaves the
\* collection as it is once the flag is set
C32_NoPrimaryWriteWhileDegraded == [][degraded => points' = points]_vars

====
